---- MODULE Spec2Model ----
(***************************************************************************)
(* Model of src/pages/index.js: the Home page state (edit mode and the     *)
(* selection object), the Controls handlers, the Scene / Panels / Panel    *)
(* render functions and the Landscape frame callback.                      *)
(*                                                                         *)
(* Units.  JavaScript numbers are modelled by integers in fixed point:     *)
(*   - led coordinates of the dataset are integers; render positions are   *)
(*     in tenths (1.5 -> 15, .7 -> 7, 5 -> 50);                            *)
(*   - the clock's elapsedTime is in units of 5 seconds; terrain offsets   *)
(*     are in hundredths (0.15 per second -> 75 per unit, the period 2 ->  *)
(*     200);                                                               *)
(*   - sphere radii are in thousandths (.004 -> 4, .009 -> 9).             *)
(* JavaScript arrays are 0-based, sequences here are 1-based: the array    *)
(* index of the element at position i is i - 1.                            *)
(***************************************************************************)
EXTENDS Integers, Sequences, FiniteSets, TLC

VARIABLES
  dataset,       \* which dataset the page was built with (see teModel); never written
  mounted,       \* Scene's `mounted` state
  edit,          \* Home's `edit` state
  selected,      \* Home's `selected` state: key "colors" plus one key per toggled panel id
  clock,         \* the canvas clock's elapsedTime, in units of 5 seconds
  terrains,      \* <<terrain1Ref.position.z, terrain2Ref.position.z>>, <<>> while Landscape is not mounted
  textures,      \* state of the useTexture load: "idle", "pending", "loaded", "failed"
  shapes,        \* Shape's `shapes` state: "none" (Shape not mounted), "pending", "loaded", "failed"
  crashed,       \* a render threw and the React tree was torn down
  designVisited  \* history: Design mode has been entered at least once

vars == <<dataset, mounted, edit, selected, clock, terrains, textures, shapes,
          crashed, designVisited>>

---------------------------------------------------------------------------
(* Bounds of the model *)

MaxClock == 4
MaxDelta == 2
Overflow == 3

---------------------------------------------------------------------------
(* Program constants *)

normalScale == 15
skipLeds == 10
maxPerPanel == 3000
maxPanels == 200
ledSize == 4
edgeLedSize == 9
scrollSpeed == 75
scrollPeriod == 200

InitialSelected ==
  [colors |-> [primary |-> "#e84971", edge |-> "#39f5e6"]]

---------------------------------------------------------------------------
(* The dataset: the panels and edges lists imported from ../data/leds *)

PanelIds ==
  <<
     "P000", "P001", "P002", "P003", "P004", "P005", "P006", "P007", "P008", "P009",
     "P010", "P011", "P012", "P013", "P014", "P015", "P016", "P017", "P018", "P019",
     "P020", "P021", "P022", "P023", "P024", "P025", "P026", "P027", "P028", "P029",
     "P030", "P031", "P032", "P033", "P034", "P035", "P036", "P037", "P038", "P039",
     "P040", "P041", "P042", "P043", "P044", "P045", "P046", "P047", "P048", "P049",
     "P050", "P051", "P052", "P053", "P054", "P055", "P056", "P057", "P058", "P059",
     "P060", "P061", "P062", "P063", "P064", "P065", "P066", "P067", "P068", "P069",
     "P070", "P071", "P072", "P073", "P074", "P075", "P076", "P077", "P078", "P079",
     "P080", "P081", "P082", "P083", "P084", "P085", "P086", "P087", "P088", "P089",
     "P090", "P091", "P092", "P093", "P094", "P095", "P096", "P097", "P098", "P099",
     "P100", "P101", "P102", "P103", "P104", "P105", "P106", "P107", "P108", "P109",
     "P110", "P111", "P112", "P113", "P114", "P115", "P116", "P117", "P118", "P119",
     "P120", "P121", "P122", "P123", "P124", "P125", "P126", "P127", "P128", "P129",
     "P130", "P131", "P132", "P133", "P134", "P135", "P136", "P137", "P138", "P139",
     "P140", "P141", "P142", "P143", "P144", "P145", "P146", "P147", "P148", "P149",
     "P150", "P151", "P152", "P153", "P154", "P155", "P156", "P157", "P158", "P159",
     "P160", "P161", "P162", "P163", "P164", "P165", "P166", "P167", "P168", "P169",
     "P170", "P171", "P172", "P173", "P174", "P175", "P176", "P177", "P178", "P179",
     "P180", "P181", "P182", "P183", "P184", "P185", "P186", "P187", "P188", "P189",
     "P190", "P191", "P192", "P193", "P194", "P195", "P196", "P197", "P198", "P199",
     "P200", "P201", "P202", "P203", "P204", "P205"
  >>

Leds(n) ==
  [i \in 1..n |-> <<i - 1, i - 1, i - 1>>]

SmallModel ==
  [panels |-> << [id |-> PanelIds[1], leds |-> Leds(maxPerPanel + Overflow)],
                 [id |-> PanelIds[2], leds |-> Leds(0)],
                 [id |-> PanelIds[3], leds |-> Leds(12)] >>,
   edges  |-> << [leds |-> Leds(11)] >>]

WideModel ==
  [panels |-> [i \in 1..(maxPanels + Overflow) |-> [id |-> PanelIds[i], leds |-> Leds(1)]],
   edges  |-> [i \in 1..(maxPanels + Overflow) |-> [leds |-> Leds(2)]]]

PanelWithoutLedsModel ==
  [panels |-> << [id |-> PanelIds[1], leds |-> Leds(3)],
                 [id |-> PanelIds[2]],
                 [id |-> PanelIds[3], leds |-> Leds(2)] >>,
   edges  |-> << [leds |-> Leds(3)] >>]

EdgeWithoutLedsModel ==
  [panels |-> << [id |-> PanelIds[1], leds |-> Leds(3)] >>,
   edges  |-> << [unused |-> 0], [leds |-> Leds(3)] >>]

Datasets ==
  {"small", "wide", "panelWithoutLeds", "edgeWithoutLeds"}

\* import { teModel } from "../data/leds"
teModel ==
  CASE dataset = "small" -> SmallModel
    [] dataset = "wide" -> WideModel
    [] dataset = "panelWithoutLeds" -> PanelWithoutLedsModel
    [] dataset = "edgeWithoutLeds" -> EdgeWithoutLedsModel

ToggleIdx ==
  {1, 2, maxPanels + 2}

ColorInputs ==
  {"#abcdef"}

---------------------------------------------------------------------------
(* Render functions *)

Undefined ==
  [type |-> "undefined"]

\* !!selected[id]
Truthy(sel, id) ==
  id \in DOMAIN sel /\ sel[id] = TRUE

\* new THREE.Color(style): a "#rrggbb" style sets the hex value, an
\* unparseable style leaves the constructor's default white
Color(style) ==
  CASE style = "#e84971" -> 15223153
    [] style = "#39f5e6" -> 3798502
    [] style = "#abcdef" -> 11259375
    [] OTHER -> 16777215

\* panel.leds.map(...) on a record without leds throws a TypeError
\* variant of hidden: the "colors" key is counted as a selected panel
hiddenCountingColors(sel, panel) ==
  Cardinality(DOMAIN sel) > 0 /\ ~Truthy(sel, panel.id)

\* the visibility test of Panels: more than one key in the selection and
\* no truthy entry for this panel
hidden(sel, panel) ==
  Cardinality(DOMAIN sel) > 1 /\ ~Truthy(sel, panel.id)

PanelThrows(panel) ==
  "leds" \notin DOMAIN panel

\* skipLeds is the number 10, so the test `skipLeds !== false` is always true
Panel(panel, size, color) ==
  [i \in 1..Len(panel.leds) |->
     LET ledPos == panel.leds[i]
         idx == i - 1
     IN  IF idx > maxPerPanel THEN Undefined
         ELSE IF idx % skipLeds # 0 THEN Undefined
         ELSE [type |-> "mesh", key |-> idx,
               position |-> << ledPos[3] * normalScale * (-1) + 7,
                               ledPos[2] * normalScale,
                               ledPos[1] * normalScale * (-1) + 50 >>,
               size |-> size, color |-> color]]

Panels(sel) ==
  LET primaryColor == Color(sel.colors.primary)
      edgeColor == Color(sel.colors.edge)
  IN  [panels |->
         [i \in 1..Len(teModel.panels) |->
            LET panel == teModel.panels[i] IN
            IF hidden(sel, panel) THEN Undefined
            ELSE IF i - 1 > maxPanels THEN Undefined
            ELSE [type |-> "Panel", key |-> i - 1, panel |-> panel,
                  ledSize |-> ledSize, ledColor |-> primaryColor]],
       edges |->
         [i \in 1..Len(teModel.edges) |->
            LET edge == teModel.edges[i] IN
            IF i - 1 > maxPanels THEN Undefined
            ELSE [type |-> "Panel", key |-> i - 1, panel |-> edge,
                  ledSize |-> edgeLedSize, ledColor |-> edgeColor]]]

\* rendering the Panels subtree throws iff one of its Panel elements throws
PanelsThrows(sel) ==
  LET p == Panels(sel) IN
  \/ \E i \in DOMAIN p.panels : p.panels[i].type = "Panel" /\ PanelThrows(p.panels[i].panel)
  \/ \E i \in DOMAIN p.edges : p.edges[i].type = "Panel" /\ PanelThrows(p.edges[i].panel)

\* The objects mounted under the Canvas.  Every child sits under the one
\* React.Suspense with fallback null: while Terrain is suspended in
\* useTexture the boundary shows the fallback in place of all of them.
Scene ==
  IF ~mounted \/ crashed THEN {}
  ELSE IF edit THEN {"OrbitControls", "PerspectiveCamera", "Panels"}
  ELSE IF textures # "loaded" THEN {}
  ELSE {"PerspectiveCamera", "SunHalo", "Shape", "Light", "Landscape", "Effects"}
       \cup (IF shapes = "loaded" THEN {"SunSilhouette"} ELSE {})

---------------------------------------------------------------------------
(* Handlers *)

\* variant of toggle: the checkbox only ever switches the entry on
toggleSetsTrue(sel, id) ==
  [k \in DOMAIN sel \cup {id} |-> IF k = id THEN TRUE ELSE sel[k]]

toggle(sel, id) ==
  [k \in DOMAIN sel \cup {id} |-> IF k = id THEN ~Truthy(sel, id) ELSE sel[k]]

\* variant of updateColor: the outer spread of `selected` is forgotten
updateColorWithoutSpread(sel, id, value) ==
  [k \in {"colors"} |-> [sel.colors EXCEPT ![id] = value]]

updateColor(sel, id, value) ==
  [k \in DOMAIN sel \cup {"colors"} |->
     IF k = "colors" THEN [sel.colors EXCEPT ![id] = value] ELSE sel[k]]

clear(sel) ==
  [k \in {"colors"} |-> sel.colors]

\* variant of onEditClick: leaving or entering edit mode drops the panel entries
onEditClickClearing(e, sel) ==
  [edit |-> ~e, selected |-> [k \in {"colors"} |-> sel.colors]]

onEditClick(e, sel) ==
  [edit |-> ~e, selected |-> sel]

useTexture(t) ==
  IF t = "idle" THEN "pending" ELSE t

\* variant of useFrame: the offsets are not wrapped into the period
useFrameNoWrap(elapsedTime) ==
  << elapsedTime * scrollSpeed, (elapsedTime * scrollSpeed) - scrollPeriod >>

useFrame(elapsedTime) ==
  << (elapsedTime * scrollSpeed) % scrollPeriod,
     ((elapsedTime * scrollSpeed) % scrollPeriod) - scrollPeriod >>

TerrainProps ==
  <<0, -scrollPeriod>>

---------------------------------------------------------------------------
(* Actions.  The handlers exist once the page has mounted, and Controls is   *)
(* rendered only in edit mode.  Every handler that sets state is followed by *)
(* the re-render it triggers; an exception thrown while rendering is not     *)
(* caught by any error boundary and unmounts the tree (crashed).             *)

Init ==
  /\ dataset \in Datasets
  /\ mounted = FALSE
  /\ edit = FALSE
  /\ selected = InitialSelected
  /\ clock = 0
  /\ terrains = <<>>
  /\ textures = "idle"
  /\ shapes = "none"
  /\ crashed = FALSE
  /\ designVisited = FALSE

\* Scene's effect: setMounted(true); the Canvas children render for the first time
Mount ==
  /\ ~mounted /\ ~crashed
  /\ mounted' = TRUE
  /\ textures' = IF edit THEN textures ELSE useTexture(textures)
  /\ crashed' = (edit /\ PanelsThrows(selected))
  /\ UNCHANGED <<dataset, edit, selected, clock, terrains, shapes, designVisited>>

\* Click on the "Edit" label.  Entering Design unmounts the Landscape branch
\* (terrain refs and Shape state are dropped) and renders Panels; entering
\* Landscape renders Terrain again: it mounts at once when the textures are
\* cached, stays suspended while they are pending and rethrows a failed load.
\* The canvas and its clock stay mounted.
ToggleEdit ==
  /\ mounted /\ ~crashed
  /\ LET next == onEditClick(edit, selected) IN
       /\ edit' = next.edit
       /\ selected' = next.selected
       /\ IF next.edit
            THEN /\ terrains' = <<>>
                 /\ shapes' = "none"
                 /\ textures' = textures
                 /\ crashed' = PanelsThrows(next.selected)
                 /\ designVisited' = TRUE
            ELSE /\ textures' = useTexture(textures)
                 /\ crashed' = (textures = "failed")
                 /\ terrains' = IF textures = "loaded" THEN TerrainProps ELSE <<>>
                 /\ shapes' = IF textures = "loaded" THEN "pending" ELSE "none"
                 /\ UNCHANGED designVisited
  /\ UNCHANGED <<dataset, mounted, clock>>

\* click on a panel's checkbox
Toggle(i) ==
  /\ mounted /\ edit /\ ~crashed
  /\ i \in DOMAIN teModel.panels
  /\ selected' = toggle(selected, teModel.panels[i].id)
  /\ crashed' = PanelsThrows(selected')
  /\ UNCHANGED <<dataset, mounted, edit, clock, terrains, textures, shapes, designVisited>>

\* edit of one of the two color inputs
SetColor(which, value) ==
  /\ mounted /\ edit /\ ~crashed
  /\ selected' = updateColor(selected, which, value)
  /\ crashed' = PanelsThrows(selected')
  /\ UNCHANGED <<dataset, mounted, edit, clock, terrains, textures, shapes, designVisited>>

\* click on "Clear"
Clear ==
  /\ mounted /\ edit /\ ~crashed
  /\ selected' = clear(selected)
  /\ crashed' = PanelsThrows(selected')
  /\ UNCHANGED <<dataset, mounted, edit, clock, terrains, textures, shapes, designVisited>>

\* the two terrain textures finish loading; a suspended Landscape branch mounts
TextureLoaded ==
  /\ textures = "pending" /\ ~crashed
  /\ textures' = "loaded"
  /\ terrains' = IF edit THEN terrains ELSE TerrainProps
  /\ shapes' = IF edit THEN shapes ELSE "pending"
  /\ UNCHANGED <<dataset, mounted, edit, selected, clock, crashed, designVisited>>

\* the texture load fails; useTexture rethrows the error when Terrain renders
TextureFailed ==
  /\ textures = "pending" /\ ~crashed
  /\ textures' = "failed"
  /\ crashed' = ~edit
  /\ UNCHANGED <<dataset, mounted, edit, selected, clock, terrains, shapes, designVisited>>

\* getSVG resolves: setShapes(payload)
SvgLoaded ==
  /\ shapes = "pending" /\ ~crashed
  /\ shapes' = "loaded"
  /\ UNCHANGED <<dataset, mounted, edit, selected, clock, terrains, textures, crashed, designVisited>>

\* the fetch fails: the promise of getSVG never resolves
SvgFailed ==
  /\ shapes = "pending" /\ ~crashed
  /\ shapes' = "failed"
  /\ UNCHANGED <<dataset, mounted, edit, selected, clock, terrains, textures, crashed, designVisited>>

\* variant of Tick: the callback advances the offsets from where the mount
\* left them instead of recomputing them from the clock
TickFromMount(dt) ==
  /\ mounted /\ ~crashed
  /\ clock + dt <= MaxClock
  /\ clock' = clock + dt
  /\ terrains' = IF terrains # <<>>
                   THEN << (terrains[1] + dt * scrollSpeed) % scrollPeriod,
                           ((terrains[1] + dt * scrollSpeed) % scrollPeriod) - scrollPeriod >>
                   ELSE terrains
  /\ UNCHANGED <<dataset, mounted, edit, selected, textures, shapes, crashed, designVisited>>

\* one frame of the canvas loop: the clock advances, Landscape's callback runs if mounted
Tick(dt) ==
  /\ mounted /\ ~crashed
  /\ clock + dt <= MaxClock
  /\ clock' = clock + dt
  /\ terrains' = IF terrains # <<>> THEN useFrame(clock') ELSE terrains
  /\ UNCHANGED <<dataset, mounted, edit, selected, textures, shapes, crashed, designVisited>>

Next ==
  \/ Mount
  \/ ToggleEdit
  \/ \E i \in ToggleIdx : Toggle(i)
  \/ \E which \in {"primary", "edge"} : \E value \in ColorInputs : SetColor(which, value)
  \/ Clear
  \/ TextureLoaded
  \/ TextureFailed
  \/ SvgLoaded
  \/ SvgFailed
  \/ \E dt \in 1..MaxDelta : Tick(dt)

Spec == Init /\ [][Next]_vars

---------------------------------------------------------------------------
(* What is on screen *)

DesignMounted ==
  mounted /\ edit /\ ~crashed

LandscapeMounted ==
  terrains # <<>>

\* the Panel elements the current render of Panels creates
PanelElements ==
  LET p == Panels(selected) IN
  [panels |-> SelectSeq(p.panels, LAMBDA el : el.type = "Panel"),
   edges  |-> SelectSeq(p.edges, LAMBDA el : el.type = "Panel")]

\* the meshes one Panel element renders to (undefined entries render nothing)
Points(el) ==
  SelectSeq(Panel(el.panel, el.ledSize, el.ledColor), LAMBDA m : m.type = "mesh")

NoPanelEntry(sel) ==
  DOMAIN sel \ {"colors"} = {}

Min(a, b) ==
  IF a < b THEN a ELSE b

CeilDiv(a, b) ==
  (a + b - 1) \div b

Increasing(points) ==
  \A a, b \in DOMAIN points : a < b => points[a].key < points[b].key

---------------------------------------------------------------------------
(* Claims *)

\* C1: in Design mode a named panel within the caps is rendered iff the
\* selection holds no panel entry or the panel's own entry is truthy; the
\* colors never take part in the test.
C1_VisibilityFilter ==
  DesignMounted =>
    LET p == Panels(selected).panels IN
    \A i \in DOMAIN p :
      (i - 1 < maxPanels) =>
        ((p[i].type = "Panel") <=>
           (NoPanelEntry(selected) \/ Truthy(selected, teModel.panels[i].id)))

C1_Witness ==
  /\ DesignMounted
  /\ selected.colors # InitialSelected.colors
  /\ LET p == Panels(selected).panels IN
     /\ \E i \in DOMAIN p : i - 1 < maxPanels /\ p[i].type = "Panel"
     /\ \E i \in DOMAIN p : i - 1 < maxPanels /\ p[i].type = "undefined"

\* C2: each selection operation writes only its own target: clear keeps both
\* colors, setColor keeps every panel entry and the other color, toggle keeps
\* both colors and every other panel's entry.
C2_FrameOfSelectionOps ==
  [][ /\ Clear => selected'.colors = selected.colors
      /\ \A which \in {"primary", "edge"} : \A value \in ColorInputs :
           SetColor(which, value) =>
             /\ DOMAIN selected' = DOMAIN selected
             /\ \A k \in DOMAIN selected \ {"colors"} : selected'[k] = selected[k]
             /\ \A other \in {"primary", "edge"} \ {which} :
                  selected'.colors[other] = selected.colors[other]
      /\ \A i \in ToggleIdx :
           Toggle(i) =>
             /\ selected'.colors = selected.colors
             /\ DOMAIN selected' \ {teModel.panels[i].id} = DOMAIN selected \ {teModel.panels[i].id}
             /\ \A k \in DOMAIN selected \ {"colors", teModel.panels[i].id} :
                  selected'[k] = selected[k]
    ]_vars

C2_Witness ==
  /\ DesignMounted
  /\ selected.colors.primary = "#abcdef"
  /\ selected.colors.edge = InitialSelected.colors.edge
  /\ \E k \in DOMAIN selected \ {"colors"} : selected[k] = TRUE
  /\ \E k \in DOMAIN selected \ {"colors"} : selected[k] = FALSE

\* C3: for every panel id of the dataset, toggling it twice restores the
\* truth value of its entry (absent counting as false), and the first
\* toggle of an absent entry sets it to true.
C3_ToggleTwice ==
  \A i \in DOMAIN teModel.panels :
    LET id == teModel.panels[i].id
        once == toggle(selected, id)
        twice == toggle(once, id)
    IN  /\ Truthy(twice, id) = Truthy(selected, id)
        /\ id \notin DOMAIN selected => (id \in DOMAIN once /\ once[id] = TRUE)

C3_Witness ==
  /\ DesignMounted
  /\ \E k \in DOMAIN selected \ {"colors"} : selected[k] = FALSE

\* C4: a mode toggle never writes the selection, so any sequence of mode
\* toggles leaves all panel entries and both colors as they were.
C4_ModeToggleKeepsSelection ==
  [][edit' # edit => selected' = selected]_vars

C4_Witness ==
  /\ mounted /\ ~edit /\ ~crashed /\ designVisited
  /\ selected.colors # InitialSelected.colors
  /\ ~NoPanelEntry(selected)

\* C5: every included record with len coordinates yields exactly
\* ceil(min(len, maxPerPanel) / skipLeds) points, in original order, taken
\* from the first min(len, maxPerPanel) coordinates only.
C5_SampleCount ==
  DesignMounted =>
    LET els == PanelElements.panels \o PanelElements.edges IN
    \A e \in DOMAIN els :
      LET len == Len(els[e].panel.leds)
          pts == Points(els[e])
      IN  /\ Len(pts) = CeilDiv(Min(len, maxPerPanel), skipLeds)
          /\ Increasing(pts)
          /\ \A a \in DOMAIN pts : pts[a].key < Min(len, maxPerPanel)

\* C6 (as stated): on every Landscape frame the two offsets differ by 2 and
\* each lies in [-2, 0).
C6_BothOffsetsNegative ==
  [][(clock' # clock /\ terrains' # <<>>) =>
       /\ terrains'[1] - terrains'[2] = 200
       /\ terrains'[1] \in -200..-1
       /\ terrains'[2] \in -200..-1
    ]_vars

\* C6 (amended): on every Landscape frame the two offsets differ by exactly
\* 2, slot0.z lies in [0, 2) and slot1.z lies in [-2, 0).
C6_TerrainOffsets ==
  [][(clock' # clock /\ terrains' # <<>>) =>
       /\ terrains'[1] - terrains'[2] = 200
       /\ terrains'[1] \in 0..199
       /\ terrains'[2] \in -200..-1
    ]_vars

C6_Witness ==
  /\ LandscapeMounted
  /\ clock = 3
  /\ terrains = <<25, -175>>

\* C7: at most maxPanels records of the panels list, and of the edges list,
\* are processed; the records at the first maxPanels positions are kept and
\* every later one is dropped.
C7_PanelCap ==
  DesignMounted =>
    LET p == Panels(selected) IN
    /\ Len(PanelElements.panels) <= maxPanels
    /\ Len(PanelElements.edges) <= maxPanels
    /\ \A i \in DOMAIN p.panels : i > maxPanels => p.panels[i].type = "undefined"
    /\ \A i \in DOMAIN p.edges : i > maxPanels => p.edges[i].type = "undefined"

\* C8: a record without a leds list is skipped in Design mode: rendering is
\* not aborted and the Panels subtree stays on screen.
C8_MissingLedsSkipped ==
  (/\ mounted /\ edit
   /\ \/ \E i \in DOMAIN teModel.panels : PanelThrows(teModel.panels[i])
      \/ \E i \in DOMAIN teModel.edges : PanelThrows(teModel.edges[i]))
  => (~crashed /\ "Panels" \in Scene)

\* C9: in Landscape mode, while an asset load is pending or has failed, the
\* elements that do not depend on that asset (lights, sun halo, and the
\* terrain with its frame callback when only the silhouette is missing) are
\* mounted.
C9_AssetFailureIsLocal ==
  (mounted /\ ~edit) =>
    /\ textures \in {"pending", "failed"} => {"Light", "SunHalo"} \subseteq Scene
    /\ shapes \in {"pending", "failed"} => {"Light", "SunHalo", "Landscape"} \subseteq Scene

\* C10 (as stated): after Landscape is re-entered from Design the terrain
\* runs from phase 0: starting from the offset it was mounted with, every
\* frame advances slot0.z by the time elapsed since the previous frame.
C10_PhaseRestarts ==
  [][(designVisited /\ clock' # clock /\ terrains # <<>> /\ terrains' # <<>>) =>
       terrains'[1] = (terrains[1] + (clock' - clock) * 75) % 200
    ]_vars

\* C10 (amended): a mode switch re-mounts the terrains at their initial
\* offsets 0 and -2 but leaves the canvas clock running; on every frame
\* after re-entry the offsets are those of the total elapsed time,
\* (t * 0.15) mod 2 and that minus 2.
C10_PhaseContinues ==
  [][ /\ edit' # edit =>
           /\ clock' = clock
           /\ terrains' \in {<<>>, <<0, -200>>}
      /\ (designVisited /\ clock' # clock /\ terrains' # <<>>) =>
           terrains' = <<(clock' * 75) % 200, ((clock' * 75) % 200) - 200>>
    ]_vars

C10_Witness ==
  /\ designVisited /\ ~edit
  /\ LandscapeMounted
  /\ clock = 2
  /\ terrains = <<150, -50>>

====
